---- MODULE Spec2Model ----
(***************************************************************************)
(* A model of chika: dataclass-based configuration.  The module follows    *)
(* src/chika/chika.py and src/chika/utils.py: the field helpers, the       *)
(* argument registration of ChikaArgumentParser, parse_args_into_dataclass,*)
(* ChikaConfig.to_dict / from_dict and the run wrapper produced by main.   *)
(*                                                                         *)
(* Python values are tagged values Tag(kind, payload); dicts are           *)
(* functions from key strings to values; the argparse namespace, whose     *)
(* iteration order the code depends on, is a sequence of <<key, value>>.   *)
(***************************************************************************)
EXTENDS Integers, Sequences, FiniteSets, TLC

VARIABLES
    pc,              \* position of the program: which call was made last
    dataclass_type,  \* ChikaArgumentParser.dataclass_type / cfg_cls / cls
    parser,          \* the constructed ChikaArgumentParser (its registered arguments) or the exception
    fs,              \* the files on disk: path -> loaded mapping
    args,            \* the command line: a sequence of [opt, toks]
    outcome,         \* what parse_args_into_dataclass returned or raised
    mapping,         \* the mapping handed to from_dict (its state_dict)
    missing_ok,      \* the allow_missing handed to from_dict
    cfg_in,          \* the configuration to_dict was called on
    cfg_out,         \* what from_dict returned or raised
    strict,          \* main(strict=...)
    change_job_dir,  \* main(change_job_dir=...)
    job_dir_name,    \* main(job_dir_name=...)
    func_raises,     \* whether the wrapped function raises
    cwd,             \* the process working directory
    cwd_before,      \* the working directory when the wrapper was called
    dirs,            \* directories created by the wrapper
    saved,           \* files written by the wrapper
    warned,          \* whether warnings.warn was called
    called,          \* whether the wrapped function was invoked
    wout             \* how the wrapper ended

parserVars == <<dataclass_type, parser, fs, args, outcome>>
configVars == <<mapping, missing_ok, cfg_in, cfg_out>>
mainVars == <<strict, change_job_dir, job_dir_name, func_raises, cwd, cwd_before, dirs, saved, warned, called, wout>>
vars == <<pc, parserVars, configVars, mainVars>>

(***************************************************************************)
(* Python values                                                           *)
(***************************************************************************)
\* a value is a function with one key, its kind, mapped to its payload
Tag(kind, payload) == [x \in {kind} |-> payload]
Kind(x) == CHOOSE kind \in DOMAIN x : TRUE
Val(x) == x[Kind(x)]

None == Tag("None", 0)
MISSING == Tag("MISSING", 0)
SUPPRESS == Tag("SUPPRESS", 0)
PyInt(n) == Tag("int", n)
PyStr(s) == Tag("str", s)
PyBool(b) == Tag("bool", b)
PyList(s) == Tag("list", s)
PyTuple(s) == Tag("tuple", s)
Inf(sign) == Tag("inf", sign)
EnumMember(cls, value) == Tag("enum", <<cls, value>>)
DefaultUntouched(value) == Tag("DefaultUntouched", value)
DictValue(d) == Tag("dict", d)
Obj(cls, fields) == Tag("instance", [cls |-> cls, fields |-> fields])

Ok(x) == Tag("ok", x)
Raise(e) == Tag("raise", e)
IsOk(r) == DOMAIN r = {"ok"}

EmptyDict == [x \in {} |-> None]
Put(d, key, value) == (key :> value) @@ d
Get(d, key) == IF key \in DOMAIN d THEN d[key] ELSE None

(***************************************************************************)
(* Types (type hints)                                                      *)
(***************************************************************************)
TInt == Tag("type", "int")
TStr == Tag("type", "str")
TBool == Tag("type", "bool")
TEnum(name) == Tag("enumtype", name)
TList(elem) == Tag("generic", <<"list", elem>>)
TOptional(t) == Tag("Optional", t)
TDataclass(name, fields) == Tag("dataclass", [name |-> name, fields |-> fields])

\* class E(str, enum.Enum) mixes str in, class P(enum.Enum) does not
StrMixin == {"E"}
EnumValues == <<"a", "b">>

_primitive_types == {TBool, TInt, TStr}
_container_types == {"list", "tuple"}

typing_get_origin(t) == IF Kind(t) = "generic" THEN PyStr(Val(t)[1]) ELSE None

_is_container_type(t) == typing_get_origin(t) # None /\ Val(typing_get_origin(t)) \in _container_types

is_dataclass(t) == Kind(t) = "dataclass"

\* Python's ==: structural, except that a member of a str-mixin enumeration
\* equals the string that is its value
PyEq(a, b) ==
    \/ a = b
    \/ Kind(a) = "enum" /\ Val(a)[1] \in StrMixin /\ b = PyStr(Val(a)[2])
    \/ Kind(b) = "enum" /\ Val(b)[1] \in StrMixin /\ a = PyStr(Val(b)[2])

(***************************************************************************)
(* utils.py: Optional handling                                             *)
(***************************************************************************)
TNoneType == Tag("type", "NoneType")

\* typing.get_args: Optional[X] is Union[X, NoneType], List[X] has the argument X
typing_get_args(t) ==
    CASE Kind(t) = "Optional" -> <<Val(t), TNoneType>>
      [] Kind(t) = "generic" -> <<Val(t)[2]>>
      [] OTHER -> <<>>

_is_optional(t) ==
    IF Kind(t) = "Optional"
    THEN LET last_arg == typing_get_args(t)[Len(typing_get_args(t))] IN last_arg = TNoneType
    ELSE FALSE

\* len(): defined for tuples and lists only; a type object has no len()
HasLen(x) == Kind(x) \in {"list", "tuple"}

\* args = typing.get_args(_type)[0] is the first type argument itself, so
\* len(args) is taken of a type and raises TypeError before any unwrapping
_unpack_optional(t) ==
    IF ~_is_optional(t) THEN Ok(t)
    ELSE LET a == typing_get_args(t)[1] IN
         IF Kind(a) = "enumtype" THEN Raise("KeyError")    \* len(E) is defined, E[0] is a lookup by name
         ELSE IF ~HasLen(a) THEN Raise("TypeError")
         ELSE LET first_arg == Val(a)[1] IN
              IF first_arg \in _primitive_types THEN Ok(first_arg)
              ELSE IF _is_container_type(first_arg) THEN Ok(first_arg)
              ELSE Raise("ValueError")

(***************************************************************************)
(* chika.py: the field helpers.  A dataclasses.Field is [default, metadata];*)
(* the help text has no effect on parsing and is left out of the metadata. *)
(***************************************************************************)
dataclasses_field(default, metadata) == [default |-> default, metadata |-> metadata]

\* a: T         (no right-hand side)
bare == dataclasses_field(MISSING, EmptyDict)
\* a: T = value
plain(default) == dataclasses_field(default, EmptyDict)

with_help(default) == dataclasses_field(default, Put(EmptyDict, "default", default))

\* a helper that takes the last value as the default
choices_LastIsDefault(values) ==
    dataclasses_field(values[Len(values)],
                      Put(Put(EmptyDict, "choices", PyList(values)), "default", values[Len(values)]))
choices(values) ==
    dataclasses_field(values[1], Put(Put(EmptyDict, "choices", PyList(values)), "default", values[1]))

sequence(values, size) ==
    dataclasses_field(PyTuple(values),
                      Put(Put(EmptyDict, "default", PyList(values)),
                          "nargs", IF size = None THEN PyStr("+") ELSE size))

required == dataclasses_field(None, Put(EmptyDict, "required", PyBool(TRUE)))

isNumber(x) == Kind(x) \in {"int", "inf"}

\* a <= b on numbers, math.inf included
NumLeq(a, b) ==
    CASE Kind(a) = "inf" -> Val(a) < 0 \/ (Kind(b) = "inf" /\ Val(b) > 0)
      [] Kind(b) = "inf" -> Val(b) > 0
      [] OTHER -> Val(a) <= Val(b)

\* the closure _impl of bounded, applied to val
_impl(bounds, val) ==
    IF ~isNumber(val) THEN Raise("ValueError")
    ELSE IF ~(NumLeq(Val(bounds)[1], val) /\ NumLeq(val, Val(bounds)[2])) THEN Raise("ValueError")
    ELSE Ok(val)

bounded(default, _from, _to) ==
    LET lo == IF _from = None THEN Inf(-1) ELSE _from
        hi == IF _to = None THEN Inf(1) ELSE _to
        meta0 == Put(EmptyDict, "type", Tag("_impl", <<lo, hi>>))
        meta == IF default # None THEN Put(meta0, "default", default) ELSE meta0
    IN IF isNumber(default) /\ ~(NumLeq(lo, default) /\ NumLeq(default, hi))
       THEN Raise("ValueError")
       ELSE Ok(dataclasses_field(default, meta))

\* one field of a dataclass: name, type hint, and the Field on its right-hand side
Field(name, type, f) == [name |-> name, type |-> type, default |-> f.default, metadata |-> f.metadata]

(***************************************************************************)
(* Calling a type object on a value: int(x), str(x), bool(x), E(x), ...    *)
(***************************************************************************)
\* the decimal literals that occur in the checked inputs
IntLiterals ==
    ("-2" :> -2) @@ ("-1" :> -1) @@ ("0" :> 0) @@ ("1" :> 1) @@ ("2" :> 2) @@ ("3" :> 3)
    @@ ("4" :> 4) @@ ("5" :> 5) @@ ("7" :> 7) @@ ("8" :> 8) @@ ("9" :> 9)

\* int(x)
int(x) ==
    CASE Kind(x) = "int" -> Ok(x)
      [] Kind(x) = "bool" -> Ok(PyInt(IF Val(x) THEN 1 ELSE 0))
      [] Kind(x) = "str" -> IF Val(x) \in DOMAIN IntLiterals THEN Ok(PyInt(IntLiterals[Val(x)])) ELSE Raise("ValueError")
      [] OTHER -> Raise("TypeError")

\* str(x): a string stays as it is, a number becomes its decimal literal
str(x) ==
    CASE Kind(x) = "str" -> Ok(x)
      [] Kind(x) = "enum" /\ Val(x)[1] \in StrMixin -> Ok(PyStr(Val(x)[2]))
      [] Kind(x) = "int" -> Ok(PyStr(CHOOSE l \in DOMAIN IntLiterals : IntLiterals[l] = Val(x)))
      [] Kind(x) = "bool" -> Ok(PyStr(IF Val(x) THEN "True" ELSE "False"))
      [] OTHER -> Ok(PyStr("None"))

\* bool(x): truthiness
bool(x) ==
    CASE Kind(x) = "bool" -> Ok(x)
      [] Kind(x) = "int" -> Ok(PyBool(Val(x) # 0))
      [] Kind(x) = "str" -> Ok(PyBool(Val(x) # ""))
      [] Kind(x) \in {"list", "tuple"} -> Ok(PyBool(Val(x) # <<>>))
      [] OTHER -> Ok(PyBool(Kind(x) # "None"))

\* E(x): lookup of an enumeration member by value
EnumCall(cls, x) ==
    IF Kind(x) = "enum" /\ Val(x)[1] = cls THEN Ok(x)
    ELSE IF Kind(x) = "str" /\ (\E i \in DOMAIN EnumValues : EnumValues[i] = Val(x))
         THEN Ok(EnumMember(cls, Val(x)))
         ELSE Raise("ValueError")

\* list(x), tuple(x)
ContainerCall(origin, x) ==
    IF Kind(x) \in {"list", "tuple"} THEN Ok(Tag(origin, Val(x))) ELSE Raise("TypeError")

\* t(x) for the callables that reach argparse's type= and from_dict's ft(value)
TypeCall(t, x) ==
    CASE t = TInt -> int(x)
      [] t = TStr -> str(x)
      [] t = TBool -> bool(x)
      [] Kind(t) = "enumtype" -> EnumCall(Val(t), x)
      [] Kind(t) = "_impl" -> _impl(t, x)
      [] OTHER -> Raise("TypeError")

(***************************************************************************)
(* ChikaArgumentParser.add_dataclass_arguments.  An option name is the     *)
(* sequence of its dotted parts: <<"b", "y">> is --b.y with dest "b.y".    *)
(***************************************************************************)
Has(kwargs, key) == Get(kwargs, key) # None

\* argparse.add_argument(field_name, **kwargs): the registered action.
\* store_true / store_false take no type, choices or nargs.
add_argument(dest, kwargs) ==
    LET action == IF Has(kwargs, "action") THEN Val(kwargs["action"]) ELSE "store" IN
    IF action # "store" /\ (Has(kwargs, "type") \/ Has(kwargs, "choices") \/ Has(kwargs, "nargs"))
    THEN Raise("TypeError")
    ELSE Ok([dest |-> dest,
             action |-> action,
             type |-> Get(kwargs, "type"),
             choices |-> Get(kwargs, "choices"),
             nargs |-> Get(kwargs, "nargs"),
             required |-> Get(kwargs, "required") = PyBool(TRUE),
             default |-> IF "default" \in DOMAIN kwargs THEN kwargs["default"]
                         ELSE CASE action = "store_true" -> PyBool(FALSE)
                                [] action = "store_false" -> PyBool(TRUE)
                                [] OTHER -> None])

\* lines 123-136: the kwargs of a field that is no enumeration, bool, container or dataclass
PrimitiveKwargs(field, field_type, kwargs0, nest_level) ==
    LET kwargs == Put(kwargs0, "type", field_type) IN
    IF field.default = MISSING /\ Get(kwargs, "default") = None
    THEN IF nest_level = 0 THEN Put(kwargs, "required", PyBool(TRUE))
         ELSE Put(kwargs, "default", DefaultUntouched(None))
    ELSE IF field.default # MISSING
    THEN Put(kwargs, "default", IF nest_level = 0 THEN field.default ELSE DefaultUntouched(field.default))
    ELSE IF nest_level > 0 /\ Get(kwargs, "default") # None
    THEN Put(kwargs, "default", DefaultUntouched(kwargs["default"]))
    ELSE kwargs

\* lines 89-93
EnumKwargs(field, field_type, kwargs0) ==
    LET kwargs == Put(Put(kwargs0, "choices", PyList([i \in DOMAIN EnumValues |-> PyStr(EnumValues[i])])),
                      "type", field_type)
    IN IF Get(kwargs, "required") = None THEN Put(kwargs, "default", field.default) ELSE kwargs

\* a registration that ignores the default
BoolKwargs_AlwaysStoreTrue(field, kwargs0) == Put(kwargs0, "action", PyStr("store_true"))
\* lines 95-97
BoolKwargs(field, kwargs0) ==
    Put(kwargs0, "action", PyStr(IF field.default = PyBool(TRUE) THEN "store_false" ELSE "store_true"))

\* lines 99-102
ContainerKwargs(field_type, kwargs0) ==
    LET kwargs == IF Get(kwargs0, "nargs") = None THEN Put(kwargs0, "nargs", PyStr("+")) ELSE kwargs0
    IN Put(kwargs, "type", typing_get_args(field_type)[1])

\* a registration that forgets argparse.SUPPRESS
NestedDefault_NotSuppressed(field) == field.default
\* lines 111-114: without a default instance the file switch sets no attribute when absent
NestedDefault(field) == IF field.default = MISSING THEN SUPPRESS ELSE field.default

\* line 106: a dataclass-typed field below the root is refused
\* a cap that is one level too generous
NestTooDeep_Off(nest_level) == nest_level > 1
NestTooDeep(nest_level) == nest_level > 0

\* the actions registered so far followed by the next ones, or the first exception
Registered(first, others) ==
    IF ~IsOk(first) THEN first
    ELSE IF ~IsOk(others) THEN others
    ELSE Ok(Val(first) \o Val(others))

RECURSIVE add_dataclass_arguments(_, _, _)
\* the body of the loop over dataclasses.fields(dtype): the actions one field registers
AddField(field, prefix, nest_level) ==
    LET field_name == IF prefix = None THEN <<field.name>> ELSE <<Val(prefix), field.name>>
        kwargs == field.metadata
        one(a) == IF IsOk(a) THEN Ok(<<Val(a)>>) ELSE a
        typed(field_type) ==
            CASE Kind(field_type) = "enumtype" ->
                   one(add_argument(field_name, EnumKwargs(field, field_type, kwargs)))
              [] field_type = TBool ->
                   one(add_argument(field_name, BoolKwargs(field, kwargs)))
              [] _is_container_type(field_type) ->
                   one(add_argument(field_name, ContainerKwargs(field_type, kwargs)))
              [] is_dataclass(field_type) ->
                   IF NestTooDeep(nest_level) THEN Raise("NotImplementedError")
                   ELSE Registered(
                            one(add_argument(field_name, Put(kwargs, "default", NestedDefault(field)))),
                            IF field.default = MISSING
                            THEN add_dataclass_arguments(Val(field_type).fields, PyStr(field.name), nest_level + 1)
                            ELSE Raise("NotImplementedError"))
              [] OTHER ->
                   one(add_argument(field_name, PrimitiveKwargs(field, field_type, kwargs, nest_level)))
        unpack(unpacked) == IF IsOk(unpacked) THEN typed(Val(unpacked)) ELSE unpacked
    IN  unpack(_unpack_optional(field.type))

\* add_dataclass_arguments(dtype, prefix, nest_level), fields == dataclasses.fields(dtype):
\* the registered actions in registration order, or the exception raised
add_dataclass_arguments(fields, prefix, nest_level) ==
    IF fields = <<>> THEN Ok(<<>>)
    ELSE Registered(AddField(Head(fields), prefix, nest_level),
                    add_dataclass_arguments(Tail(fields), prefix, nest_level))

\* ChikaArgumentParser.__init__
ChikaArgumentParser(dtype) == add_dataclass_arguments(Val(dtype).fields, None, 0)

(***************************************************************************)
(* argparse, as parse_args_into_dataclass uses it (self.parse_known_args). *)
(* The command line is a sequence of [opt, toks]: an option and the tokens *)
(* that follow it up to the next option.  The namespace is the sequence of *)
(* <<dest, value>> in the order the attributes were set.                   *)
(***************************************************************************)
NsHas(ns, dest) == \E i \in DOMAIN ns : ns[i][1] = dest
NsGet(ns, dest) == ns[CHOOSE i \in DOMAIN ns : ns[i][1] = dest][2]
setattr(ns, dest, value) ==
    IF NsHas(ns, dest)
    THEN [i \in DOMAIN ns |-> IF ns[i][1] = dest THEN <<dest, value>> ELSE ns[i]]
    ELSE Append(ns, <<dest, value>>)

\* every action's default is set first, in registration order, unless it is SUPPRESS
RECURSIVE InitialNamespace(_)
InitialNamespace(actions) ==
    IF actions = <<>> THEN <<>>
    ELSE (IF Head(actions).default # SUPPRESS
          THEN << <<Head(actions).dest, Head(actions).default>> >>
          ELSE <<>>) \o InitialNamespace(Tail(actions))

\* argparse._get_value: the type callable applied to one string
_get_value(action, string) ==
    IF action.type = None THEN Ok(string)
    ELSE LET converted(r) == IF IsOk(r) THEN r ELSE Raise("SystemExit")
         IN  converted(TypeCall(action.type, string))

\* argparse._check_value: membership in choices, by ==
_check_value(action, value) ==
    action.choices = None \/ \E i \in DOMAIN Val(action.choices) : PyEq(Val(action.choices)[i], value)

RECURSIVE GetValues(_, _)
GetValues(action, toks) ==
    IF toks = <<>> THEN Ok(<<>>)
    ELSE LET checked(r) ==
                 IF ~IsOk(r) THEN r
                 ELSE IF ~_check_value(action, Val(r)) THEN Raise("SystemExit")
                 ELSE Ok(<<Val(r)>>)
         IN  Registered(checked(_get_value(action, PyStr(Head(toks)))), GetValues(action, Tail(toks)))

\* how many of the tokens after the option the action takes; -1: too few (usage error)
Arity(action, n) ==
    CASE action.action # "store" -> 0
      [] action.nargs = None -> IF n >= 1 THEN 1 ELSE -1
      [] action.nargs = PyStr("+") -> IF n >= 1 THEN n ELSE -1
      [] OTHER -> IF n >= Val(action.nargs) THEN Val(action.nargs) ELSE -1

Word(tok) == Tag("tok", tok)
OptWord(opt) == Tag("opt", opt)
Words(toks) == [i \in DOMAIN toks |-> Word(toks[i])]

\* one option of the command line: st is [ns, seen, extras]
ConsumeOption(actions, item, st) ==
    LET stored(action, values, left) ==
            IF ~IsOk(values) THEN values
            ELSE Ok([ns |-> setattr(st.ns, action.dest,
                                    CASE action.action = "store_true" -> PyBool(TRUE)
                                      [] action.action = "store_false" -> PyBool(FALSE)
                                      [] action.nargs = None -> Val(values)[1]
                                      [] OTHER -> PyList(Val(values))),
                     seen |-> st.seen \cup {action.dest},
                     extras |-> st.extras \o Words(left)])
        take(action, n) ==
            IF n < 0 THEN Raise("SystemExit")
            ELSE stored(action, GetValues(action, SubSeq(item.toks, 1, n)),
                        SubSeq(item.toks, n + 1, Len(item.toks)))
        consume(action) == take(action, Arity(action, Len(item.toks)))
    IN  IF ~\E i \in DOMAIN actions : actions[i].dest = item.opt
        THEN Ok([st EXCEPT !.extras = @ \o <<OptWord(item.opt)>> \o Words(item.toks)])
        ELSE consume(actions[CHOOSE i \in DOMAIN actions : actions[i].dest = item.opt])

RECURSIVE ConsumeOptions(_, _, _)
ConsumeOptions(actions, argv, st) ==
    LET next(r) == IF IsOk(r) THEN ConsumeOptions(actions, Tail(argv), Val(r)) ELSE r
    IN  IF argv = <<>> THEN Ok(st)
        ELSE next(ConsumeOption(actions, Head(argv), st))

isStrInstance(x) == Kind(x) = "str" \/ (Kind(x) = "enum" /\ Val(x)[1] \in StrMixin)

\* after the command line is consumed: a required action that was not seen is a
\* usage error; a default that is a string goes through the type callable
RECURSIVE FinishNamespace(_, _, _)
FinishNamespace(actions, seen, ns) ==
    IF actions = <<>> THEN Ok(ns)
    ELSE LET action == Head(actions) IN
         IF action.dest \in seen THEN FinishNamespace(Tail(actions), seen, ns)
         ELSE IF action.required THEN Raise("SystemExit")
         ELSE IF isStrInstance(action.default) /\ NsHas(ns, action.dest)
                 /\ NsGet(ns, action.dest) = action.default
         THEN LET converted(r) ==
                      IF IsOk(r) THEN FinishNamespace(Tail(actions), seen, setattr(ns, action.dest, Val(r)))
                      ELSE r
              IN  converted(_get_value(action, action.default))
         ELSE FinishNamespace(Tail(actions), seen, ns)

\* parse_known_args: Ok([namespace, remaining_args]) or SystemExit
parse_known_args(actions, argv) ==
    LET finished(f, extras) ==
            IF IsOk(f) THEN Ok([namespace |-> Val(f), remaining_args |-> extras]) ELSE f
        consumed(r) ==
            IF ~IsOk(r) THEN r
            ELSE finished(FinishNamespace(actions, Val(r).seen, Val(r).ns), Val(r).extras)
    IN  consumed(ConsumeOptions(actions, argv,
                                [ns |-> InitialNamespace(actions), seen |-> {}, extras |-> <<>>]))

(***************************************************************************)
(* utils.py: files                                                         *)
(***************************************************************************)
\* Path(file).suffix of the paths that occur on the checked command lines
Suffix == ("cfg.json" :> ".json") @@ ("cfg.yaml" :> ".yaml") @@ ("cfg.txt" :> ".txt") @@ ("gone.yml" :> ".yml")
Paths == DOMAIN Suffix
SUPPORTED_SUFFIXES == {".json", ".yaml", ".yml"}

is_supported_filetype(file) == Suffix[file] \in SUPPORTED_SUFFIXES

\* load_from_file: files == the files that exist, path -> mapping stored
load_from_file(files, file) ==
    IF file \notin DOMAIN files THEN Raise("FileNotFoundError")
    ELSE IF ~is_supported_filetype(file) THEN Raise("RuntimeError")
    ELSE Ok(files[file])

(***************************************************************************)
(* ChikaConfig.from_dict / to_dict                                         *)
(***************************************************************************)
\* cls(**kw): the generated __init__ of a dataclass
Construct(cls, kw) ==
    LET fields == Val(cls).fields IN
    IF \E i \in DOMAIN fields : fields[i].name \notin DOMAIN kw /\ fields[i].default = MISSING
    THEN Raise("TypeError")
    ELSE Ok(Obj(Val(cls).name,
                [n \in {fields[i].name : i \in DOMAIN fields} |->
                    IF n \in DOMAIN kw THEN kw[n]
                    ELSE fields[CHOOSE i \in DOMAIN fields : fields[i].name = n].default]))

\* isinstance(hint, enum.Enum): true of an enumeration member, never of a class
isEnumInstance(hint) == Kind(hint) = "enum"

\* a loader that leaves an absent key to the declared default
Absent_UsesDefault(field, allow_missing, acc) ==
    IF field.default # MISSING THEN acc
    ELSE IF allow_missing THEN Ok(Put(Val(acc), field.name, None))
    ELSE Raise("ValueError")
\* lines 336-340: the key of the field is not in state_dict
Absent(field, allow_missing, acc) ==
    IF allow_missing THEN Ok(Put(Val(acc), field.name, None))
    ELSE Raise("ValueError")

RECURSIVE from_dict(_, _, _)
\* one round of the loop of from_dict: acc is Ok(_state_dict) or the exception
FromDictField(field, state_dict, allow_missing, acc) ==
    LET name == field.name
        hint == field.type
        value == Val(state_dict)[name]
        \* _state_dict[name] = <the call's result>, or the call's exception
        set(r) == IF IsOk(r) THEN Ok(Put(Val(acc), name, Val(r))) ELSE r
        typed(ft) ==
            IF ft \in _primitive_types
            THEN IF value # None THEN set(TypeCall(ft, value)) ELSE acc
            ELSE IF _is_container_type(ft)
            THEN IF value # None THEN set(ContainerCall(Val(typing_get_origin(ft)), value)) ELSE acc
            ELSE Ok(Put(Val(acc), name, value))
        unpack(ft) == IF IsOk(ft) THEN typed(Val(ft)) ELSE ft
    IN  IF ~IsOk(acc) THEN acc
        ELSE IF is_dataclass(hint)
        THEN IF Kind(state_dict) # "dict" THEN Raise("TypeError")
             ELSE IF name \notin DOMAIN Val(state_dict) THEN Raise("KeyError")
             ELSE set(from_dict(hint, Val(state_dict)[name], FALSE))
        ELSE IF isEnumInstance(hint)
        THEN IF Kind(state_dict) # "dict" THEN Raise("TypeError")
             ELSE IF name \notin DOMAIN Val(state_dict) THEN Raise("KeyError")
             ELSE set(EnumCall(Val(hint)[1], Val(state_dict)[name]))
        ELSE IF Kind(state_dict) # "dict" THEN Raise("AttributeError")
        ELSE IF name \in DOMAIN Val(state_dict)
        THEN unpack(_unpack_optional(field.type))
        ELSE Absent(field, allow_missing, acc)

RECURSIVE FromDictLoop(_, _, _, _)
FromDictLoop(fields, state_dict, allow_missing, acc) ==
    IF fields = <<>> THEN acc
    ELSE FromDictLoop(Tail(fields), state_dict, allow_missing,
                      FromDictField(Head(fields), state_dict, allow_missing, acc))

\* cls.from_dict(state_dict, allow_missing): Ok(instance) or the exception
from_dict(cls, state_dict, allow_missing) ==
    LET construct(r) == IF IsOk(r) THEN Construct(cls, Val(r)) ELSE r
    IN  construct(FromDictLoop(Val(cls).fields, state_dict, allow_missing, Ok(EmptyDict)))

RECURSIVE asdict(_)
\* dataclasses.asdict: instances become dicts, lists and tuples keep their type
asdict(x) ==
    CASE Kind(x) = "instance" -> DictValue([n \in DOMAIN Val(x).fields |-> asdict(Val(x).fields[n])])
      [] Kind(x) \in {"list", "tuple"} -> Tag(Kind(x), [i \in DOMAIN Val(x) |-> asdict(Val(x)[i])])
      [] OTHER -> x

RECURSIVE _enum_to_value(_)
_enum_to_value(d) ==
    [n \in DOMAIN d |->
        CASE Kind(d[n]) = "dict" -> DictValue(_enum_to_value(Val(d[n])))
          [] Kind(d[n]) = "enum" -> PyStr(Val(d[n])[2])
          [] OTHER -> d[n]]

to_dict(self) == DictValue(_enum_to_value(Val(asdict(self))))

(***************************************************************************)
(* ChikaArgumentParser.parse_args_into_dataclass                           *)
(***************************************************************************)
\* name_to_type.get(k): the type hint of a root field, None for any other key
NameToType(dtype, key) ==
    LET fields == Val(dtype).fields IN
    IF Len(key) = 1 /\ \E i \in DOMAIN fields : fields[i].name = key[1]
    THEN fields[CHOOSE i \in DOMAIN fields : fields[i].name = key[1]].type
    ELSE None

\* unflatten_dict[k] of the defaultdict(dict): a missing key reads as {}
SubDict(unflatten, key) == IF key \in DOMAIN unflatten THEN Val(unflatten[key]) ELSE EmptyDict

\* lines 152-156: the loaded mapping merged into unflatten_dict[k]
MergeLoaded(unflatten, key, loaded) ==
    IF DOMAIN loaded = {} THEN unflatten
    ELSE LET sub == SubDict(unflatten, key) IN
         Put(unflatten, key,
             DictValue([n \in DOMAIN sub |->
                 IF n \in DOMAIN loaded /\ sub[n] # None
                 THEN IF Kind(sub[n]) = "DefaultUntouched" THEN loaded[n] ELSE sub[n]
                 ELSE sub[n]]))

\* one entry (k, v) of vars(namespace).items(): acc is Ok(unflatten_dict) or the exception
UnflattenEntry(dtype, files, entry, acc) ==
    LET key == entry[1]
        value == entry[2]
        merge(loaded) == IF IsOk(loaded) THEN Ok(MergeLoaded(Val(acc), key[1], Val(loaded))) ELSE loaded
    IN  IF ~IsOk(acc) THEN acc
        ELSE IF is_dataclass(NameToType(dtype, key))
        THEN IF Kind(value) = "str" /\ is_supported_filetype(Val(value))
             THEN merge(load_from_file(files, Val(value)))
             ELSE Raise("RuntimeError")
        ELSE IF Len(key) > 1
        THEN Ok(Put(Val(acc), key[1], DictValue(Put(SubDict(Val(acc), key[1]), key[2], value))))
        ELSE Ok(Put(Val(acc), key[1], value))

RECURSIVE UnflattenLoop(_, _, _, _)
UnflattenLoop(dtype, files, namespace, acc) ==
    IF namespace = <<>> THEN acc
    ELSE UnflattenLoop(dtype, files, Tail(namespace), UnflattenEntry(dtype, files, Head(namespace), acc))

RECURSIVE remove_default_untouched(_)
remove_default_untouched(d) ==
    [n \in DOMAIN d |->
        CASE Kind(d[n]) = "DefaultUntouched" -> Val(d[n])
          [] Kind(d[n]) = "dict" -> DictValue(remove_default_untouched(Val(d[n])))
          [] OTHER -> d[n]]

\* parse_args_into_dataclass(args) of the parser built for dtype with the registered
\* actions: Ok([config, remaining_args]) or the exception
parse_args_into_dataclass(dtype, actions, files, argv) ==
    LET returned(dclass, remaining_args) ==
            IF IsOk(dclass) THEN Ok([config |-> Val(dclass), remaining_args |-> remaining_args])
            ELSE dclass
        unflattened(unflatten, remaining_args) ==
            IF ~IsOk(unflatten) THEN unflatten
            ELSE returned(from_dict(dtype, DictValue(remove_default_untouched(Val(unflatten))), FALSE),
                          remaining_args)
        known(parsed) ==
            IF ~IsOk(parsed) THEN parsed
            ELSE unflattened(UnflattenLoop(dtype, files, Val(parsed).namespace, Ok(EmptyDict)),
                             Val(parsed).remaining_args)
    IN  known(parse_known_args(actions, argv))

(***************************************************************************)
(* The checked inputs: schemas, command lines, files                        *)
(***************************************************************************)
MaxArgs == 2    \* options on a command line
MaxToks == 3    \* tokens after one option

\* the declarations of the leaf field under test: [type, f] for `y: type = f`
Decls ==
    [ int_bare      |-> [type |-> TInt, f |-> bare],
      int_default   |-> [type |-> TInt, f |-> plain(PyInt(1))],
      int_help      |-> [type |-> TInt, f |-> with_help(PyInt(1))],
      int_required  |-> [type |-> TInt, f |-> required],
      int_choices   |-> [type |-> TInt, f |-> choices(<<PyInt(1), PyInt(2), PyInt(3)>>)],
      int_bounded   |-> [type |-> TInt, f |-> Val(bounded(PyInt(1), PyInt(-1), PyInt(2)))],
      str_default   |-> [type |-> TStr, f |-> plain(PyStr("x"))],
      bool_false    |-> [type |-> TBool, f |-> plain(PyBool(FALSE))],
      bool_true     |-> [type |-> TBool, f |-> plain(PyBool(TRUE))],
      enum_default  |-> [type |-> TEnum("E"), f |-> plain(EnumMember("E", "a"))],
      enum_plain    |-> [type |-> TEnum("P"), f |-> plain(EnumMember("P", "a"))],
      enum_bare     |-> [type |-> TEnum("E"), f |-> bare],
      list_default  |-> [type |-> TList(TInt), f |-> sequence(<<PyInt(1), PyInt(2)>>, None)],
      list_sized    |-> [type |-> TList(TInt), f |-> sequence(<<PyInt(1), PyInt(2)>>, PyInt(2))],
      list_bare     |-> [type |-> TList(TInt), f |-> bare],
      list_required |-> [type |-> TList(TInt), f |-> required],
      optional_int  |-> [type |-> TOptional(TInt), f |-> plain(None)],
      optional_list |-> [type |-> TOptional(TList(TInt)), f |-> plain(None)] ]
DeclNames == DOMAIN Decls

\* class A: y: <decl>; z: int = 7
Child(d) == TDataclass("A", <<Field("y", Decls[d].type, Decls[d].f), Field("z", TInt, plain(PyInt(7)))>>)
\* class Flat: y: <decl>; x: int = 1
Flat(d) == TDataclass("Flat", <<Field("y", Decls[d].type, Decls[d].f), Field("x", TInt, plain(PyInt(1)))>>)
\* class FlatLast: x: int = 1; y: <decl>
FlatLast(d) == TDataclass("FlatLast", <<Field("x", TInt, plain(PyInt(1))), Field("y", Decls[d].type, Decls[d].f)>>)
\* class B: b: A; x: int = 1
Nested(d) == TDataclass("B", <<Field("b", Child(d), bare), Field("x", TInt, plain(PyInt(1)))>>)
\* class C: c: B
Deep(d) == TDataclass("C", <<Field("c", Nested(d), bare)>>)
\* class B: b: A = A(...)
NestedWithDefault(d) ==
    TDataclass("B", <<Field("b", Child(d), plain(Obj("A", [n \in {"y", "z"} |-> PyInt(7)])))>>)

Schemas ==
    {Flat(d) : d \in DeclNames} \cup {Nested(d) : d \in DeclNames}
    \cup {Deep("int_default"), NestedWithDefault("int_default"), FlatLast("int_choices")}

isNested(dtype) == \E i \in DOMAIN Val(dtype).fields : is_dataclass(Val(dtype).fields[i].type)

\* the tokens tried after the option of the field under test
Tokens == {"-2", "-1", "1", "2", "5", "a", "b"}
TokSeqs ==
    {<<>>} \cup {<<t>> : t \in Tokens}
    \cup {[i \in 1..n |-> IF i % 2 = 1 THEN p[1] ELSE p[2]] : n \in 2..MaxToks, p \in {<<"1", "5">>, <<"5", "1">>}}

Item(opt, toks) == [opt |-> opt, toks |-> toks]

\* the options tried on the command line of a parser for dtype
Items(dtype) ==
    IF isNested(dtype)
    THEN {Item(<<"b", "y">>, t) : t \in TokSeqs}
         \cup {Item(<<"b">>, <<p>>) : p \in {"cfg.json", "cfg.txt", "gone.yml"}}
         \cup {Item(<<"b", "z">>, <<"9">>), Item(<<"x">>, <<"5">>), Item(<<"u">>, <<"1">>)}
    ELSE {Item(<<"y">>, t) : t \in TokSeqs}
         \cup {Item(<<"x">>, <<"5">>), Item(<<"u">>, <<"1">>)}

\* command lines of at most MaxArgs options, no option twice
CommandLines(dtype) ==
    UNION {{cl \in [1..n -> Items(dtype)] : \A i, j \in 1..n : i < j => cl[i].opt # cl[j].opt}
           : n \in 0..MaxArgs}

\* the values a file holds for the field under test
FileValues == {PyInt(3), PyBool(TRUE), PyStr("b"), PyList(<<PyInt(8), PyInt(9)>>)}

\* the mappings a config file for the nested class holds
FileContents ==
    {ys @@ zs : ys \in {EmptyDict} \cup {Put(EmptyDict, "y", f) : f \in FileValues},
                zs \in {EmptyDict, Put(EmptyDict, "z", PyInt(8))}}

Null == Tag("null", 0)

(***************************************************************************)
(* Spec: a program builds a parser for a schema, a config file may be      *)
(* written, and the command line is parsed.                                *)
(***************************************************************************)
InitConfigVars ==
    /\ mapping = Null /\ missing_ok = FALSE /\ cfg_in = Null /\ cfg_out = Null

InitMainVars ==
    /\ strict = FALSE /\ change_job_dir = FALSE /\ job_dir_name = None /\ func_raises = FALSE
    /\ cwd = "original" /\ cwd_before = "original" /\ dirs = {} /\ saved = {}
    /\ warned = FALSE /\ called = FALSE /\ wout = Null

Init ==
    /\ pc = "start"
    /\ dataclass_type = Null /\ parser = Null /\ fs = EmptyDict /\ args = <<>> /\ outcome = Null
    /\ InitConfigVars
    /\ InitMainVars

\* ChikaArgumentParser(dtype)
NewParser(dtype) ==
    /\ pc = "start"
    /\ dataclass_type' = dtype
    /\ parser' = ChikaArgumentParser(dtype)
    /\ pc' = "built"
    /\ UNCHANGED <<fs, args, outcome, configVars, mainVars>>

\* the user writes the config file cfg.json (and the same text as cfg.txt)
WriteFile(content) ==
    /\ pc = "built"
    /\ IsOk(parser)
    /\ isNested(dataclass_type)
    /\ fs = EmptyDict
    /\ fs' = ("cfg.json" :> content) @@ ("cfg.txt" :> content)
    /\ UNCHANGED <<pc, dataclass_type, parser, args, outcome, configVars, mainVars>>

\* parser.parse_args_into_dataclass(argv)
ParseArgs(argv) ==
    /\ pc = "built"
    /\ IsOk(parser)
    /\ args' = argv
    /\ outcome' = parse_args_into_dataclass(dataclass_type, Val(parser), fs, argv)
    /\ pc' = "parsed"
    /\ UNCHANGED <<dataclass_type, parser, fs, configVars, mainVars>>

Next ==
    \/ \E dtype \in Schemas : NewParser(dtype)
    \/ \E content \in FileContents : WriteFile(content)
    \/ \E argv \in (IF pc = "built" THEN CommandLines(dataclass_type) ELSE {}) : ParseArgs(argv)

Spec == Init /\ [][Next]_vars

(***************************************************************************)
(* SpecConfig: a program constructs a configuration, dumps it with         *)
(* to_dict, the mapping may lose a key on its way (a hand-edited file),    *)
(* and from_dict loads it.                                                 *)
(***************************************************************************)
\* values a program gives a field of the declared type
ValuesOf(type) ==
    CASE type = TInt -> {PyInt(5), None}
      [] type = TStr -> {PyStr("b"), None}
      [] type = TBool -> {PyBool(TRUE), PyBool(FALSE)}
      [] Kind(type) = "enumtype" -> {EnumMember(Val(type), "b")}
      [] Kind(type) = "generic" -> {PyList(<<PyInt(8), PyInt(9)>>), None}
      [] OTHER -> {PyInt(3), None}

\* keyword arguments for a field: each value, or none when it has a default
KwsOf(field, values) ==
    {Put(EmptyDict, field.name, v) : v \in values}
    \cup (IF field.default # MISSING THEN {EmptyDict} ELSE {})

\* the instances A(...) of a nested class
Instances(cls) ==
    {Val(Construct(cls, kw)) : kw \in KwsOf(Val(cls).fields[1], ValuesOf(Val(cls).fields[1].type))}

\* the keyword arguments tried for a schema: its first field and x
Kwargs(dtype) ==
    LET first == Val(dtype).fields[1]
        firsts == IF is_dataclass(first.type)
                  THEN KwsOf(first, Instances(first.type))
                  ELSE KwsOf(first, ValuesOf(first.type))
    IN  {a @@ b : a \in firsts, b \in {EmptyDict, Put(EmptyDict, "x", PyInt(5))}}

ConfigSchemas == {Flat(d) : d \in DeclNames} \cup {Nested(d) : d \in DeclNames}

\* keys a mapping can lose: a root key, or a key of the nested mapping
Without(d, key) == [n \in DOMAIN d \ {key} |-> d[n]]
DropKeyOf(m, path) ==
    IF Len(path) = 1 THEN DictValue(Without(Val(m), path[1]))
    ELSE DictValue(Put(Without(Val(m), path[1]), path[1],
                       DictValue(Without(Val(Val(m)[path[1]]), path[2]))))
KeyPaths(m) ==
    {<<n>> : n \in DOMAIN Val(m)}
    \cup UNION {{<<n, k>> : k \in DOMAIN Val(Val(m)[n])} : n \in {n \in DOMAIN Val(m) : Kind(Val(m)[n]) = "dict"}}

\* c = cls(**kw)
MakeConfig(dtype, kw) ==
    /\ pc = "start"
    /\ IsOk(Construct(dtype, kw))
    /\ dataclass_type' = dtype
    /\ cfg_in' = Val(Construct(dtype, kw))
    /\ pc' = "made"
    /\ UNCHANGED <<parser, fs, args, outcome, mapping, missing_ok, cfg_out, mainVars>>

\* c.to_dict()
ToDict ==
    /\ pc = "made"
    /\ mapping' = to_dict(cfg_in)
    /\ pc' = "dumped"
    /\ UNCHANGED <<parserVars, missing_ok, cfg_in, cfg_out, mainVars>>

\* the mapping reaches from_dict without one of its keys
DropKey(path) ==
    /\ pc = "dumped"
    /\ mapping' = DropKeyOf(mapping, path)
    /\ pc' = "edited"
    /\ UNCHANGED <<parserVars, missing_ok, cfg_in, cfg_out, mainVars>>

\* cls.from_dict(mapping, allow_missing)
FromDict(allow_missing) ==
    /\ pc \in {"dumped", "edited"}
    /\ missing_ok' = allow_missing
    /\ cfg_out' = from_dict(dataclass_type, mapping, allow_missing)
    /\ pc' = "loaded"
    /\ UNCHANGED <<parserVars, mapping, cfg_in, mainVars>>

NextConfig ==
    \/ \E dtype \in ConfigSchemas : \E kw \in Kwargs(dtype) : MakeConfig(dtype, kw)
    \/ ToDict
    \/ \E path \in (IF pc = "dumped" THEN KeyPaths(mapping) ELSE {}) : DropKey(path)
    \/ \E allow_missing \in BOOLEAN : FromDict(allow_missing)

SpecConfig == Init /\ [][NextConfig]_vars

(***************************************************************************)
(* SpecMain: a program decorates its function with main(...), may change   *)
(* its working directory, and calls the wrapper.                           *)
(***************************************************************************)
\* original_path: the working directory when the module was imported
original_path == "original"
\* the directories the program may be in when it calls the wrapper
WorkDirs == {original_path, "elsewhere"}
JOB_ID == "job"

\* a wrapper that lets one stray word pass
HasRemaining_MoreThanOne(remaining_args) == Len(remaining_args) > 1
\* len(remaining_args) > 0
HasRemaining(remaining_args) == Len(remaining_args) > 0

\* Path(job_dir_name or "outputs") / JOB_ID, relative to the working directory
JobDir(dir, name) == <<dir, IF name = None THEN "outputs" ELSE Val(name), JOB_ID>>

\* the command lines tried on the wrapper
MainItems ==
    {Item(<<"x">>, <<"5">>), Item(<<"u">>, <<"1">>), Item(<<"y">>, <<"1">>), Item(<<"y">>, <<"1", "5", "1">>)}
MainCommandLines(dtype) == {cl \in CommandLines(dtype) : \A i \in DOMAIN cl : cl[i] \in MainItems}
MainSchemas == {Flat("int_default"), Flat("list_sized"), Flat("int_required"), Deep("int_default")}
\* what the file system does to mkdir and to the write of run.yaml
IoOutcomes == {"ok", "mkdir_fails", "write_fails"}

\* @main(cfg_cls, strict, change_job_dir, job_dir_name)
Decorate(cfg_cls, s, c, name) ==
    /\ pc = "start"
    /\ dataclass_type' = cfg_cls
    /\ strict' = s /\ change_job_dir' = c /\ job_dir_name' = name
    /\ pc' = "decorated"
    /\ UNCHANGED <<parser, fs, args, outcome, configVars,
                   func_raises, cwd, cwd_before, dirs, saved, warned, called, wout>>

\* os.chdir(dir) by the program, after the import and before the call
Chdir(dir) ==
    /\ pc = "decorated"
    /\ cwd # dir
    /\ cwd' = dir
    /\ UNCHANGED <<pc, parserVars, configVars,
                   strict, change_job_dir, job_dir_name, func_raises, cwd_before, dirs, saved, warned, called, wout>>

\* _wrapper after line 420: result is what the parse returned or raised
Wrapped(built, result, argv, raises, io) ==
    LET unknown == IsOk(result) /\ HasRemaining(Val(result).remaining_args)
        rejected == unknown /\ strict
        passed == IsOk(result) /\ ~rejected
        enters == passed /\ (change_job_dir \/ job_dir_name # None)
        job_dir == JobDir(cwd, job_dir_name)
        made == enters /\ io # "mkdir_fails"
        written == made /\ io # "write_fails"
        runs == passed /\ (enters => written)
    IN  /\ pc = "decorated"
        /\ args' = argv /\ func_raises' = raises
        /\ parser' = built /\ outcome' = result
        /\ cwd_before' = cwd
        /\ warned' = (unknown /\ ~strict)
        /\ dirs' = IF made THEN dirs \cup {job_dir} ELSE dirs
        /\ saved' = IF written THEN saved \cup {<<job_dir, "run.yaml", to_dict(Val(result).config)>>} ELSE saved
        /\ called' = runs
        /\ cwd' = IF runs THEN original_path
                  ELSE IF made THEN job_dir
                  ELSE cwd
        /\ wout' = IF ~IsOk(result) THEN result
                   ELSE IF rejected THEN Raise("ValueError")
                   ELSE IF enters /\ ~written THEN Raise("OSError")
                   ELSE IF raises THEN Raise("Exception")
                   ELSE Ok(Val(result).config)
        /\ pc' = "called"
        /\ UNCHANGED <<dataclass_type, fs, configVars, strict, change_job_dir, job_dir_name>>

\* one call of _wrapper: argv is sys.argv[1:], raises whether func raises,
\* io what the file system does
Wrapper(argv, raises, io) ==
    LET parse(built) ==
            Wrapped(built,
                    IF IsOk(built)
                    THEN parse_args_into_dataclass(dataclass_type, Val(built), fs, argv)
                    ELSE built,
                    argv, raises, io)
    IN  parse(ChikaArgumentParser(dataclass_type))

NextMain ==
    \/ \E cfg_cls \in MainSchemas, s \in BOOLEAN, c \in BOOLEAN, name \in {None, PyStr("runs")} :
          Decorate(cfg_cls, s, c, name)
    \/ \E dir \in WorkDirs : Chdir(dir)
    \/ \E argv \in (IF pc = "decorated" THEN MainCommandLines(dataclass_type) ELSE {}),
           raises \in BOOLEAN, io \in IoOutcomes : Wrapper(argv, raises, io)

SpecMain == Init /\ [][NextMain]_vars

(***************************************************************************)
(* Vocabulary of the properties                                            *)
(***************************************************************************)
Built == pc \in {"built", "parsed"}
Parsed == pc = "parsed"
Returned == Parsed /\ IsOk(outcome)

\* the leaf field under test is y: at the root of Flat, inside b of B
Fields == Val(dataclass_type).fields
IsFlat == Val(dataclass_type).name = "Flat"
IsOneLevel == Val(dataclass_type).name = "B"
IsDeep == Val(dataclass_type).name = "C"
LeafHome == IF IsFlat THEN dataclass_type ELSE Fields[1].type
Leaf == Val(LeafHome).fields[1]
LeafOpt == IF IsFlat THEN <<"y">> ELSE <<"b", "y">>
HasLeaf == IsFlat \/ (IsOneLevel /\ Fields[1].default = MISSING)

Passed(opt) == \E i \in DOMAIN args : args[i].opt = opt
ToksOf(opt) == args[CHOOSE i \in DOMAIN args : args[i].opt = opt].toks

Config == Val(outcome).config
Attr(obj, name) == Val(obj).fields[name]
\* the resolved value of the leaf field, of its sibling and of the root field x
Resolved == IF IsFlat THEN Attr(Config, "y") ELSE Attr(Attr(Config, "b"), "y")
ResolvedZ == Attr(Attr(Config, "b"), "z")
ResolvedX == Attr(Config, "x")

\* the parent's file switch was passed and the file was loaded
FileLoaded == Passed(<<"b">>) /\ ToksOf(<<"b">>) = <<"cfg.json">> /\ "cfg.json" \in DOMAIN fs
FileHas(name) == FileLoaded /\ name \in DOMAIN fs["cfg.json"]
FileValue(name) == fs["cfg.json"][name]

\* equality of a resolved value and an expected one: Python's ==, and a
\* sequence equals a sequence with the same elements
Same(a, b) ==
    \/ PyEq(a, b)
    \/ Kind(a) \in {"list", "tuple"} /\ Kind(b) \in {"list", "tuple"} /\ Val(a) = Val(b)

\* a file value of the field's declared type
Fits(type, f) ==
    CASE type = TInt -> Kind(f) = "int"
      [] type = TStr -> Kind(f) = "str"
      [] type = TBool -> Kind(f) = "bool"
      [] Kind(type) = "enumtype" -> Kind(f) = "str" /\ \E i \in DOMAIN EnumValues : EnumValues[i] = Val(f)
      [] Kind(type) = "generic" -> Kind(f) = "list"
      [] OTHER -> FALSE

\* the value a command line gives the leaf field: its tokens read as the declared type
IntToks(toks) == \A i \in DOMAIN toks : toks[i] \in DOMAIN IntLiterals
CliValue(type, default, toks) ==
    CASE type = TInt -> PyInt(IntLiterals[toks[1]])
      [] type = TStr -> PyStr(toks[1])
      [] type = TBool -> PyBool(default # PyBool(TRUE))
      [] Kind(type) = "enumtype" -> EnumMember(Val(type), toks[1])
      [] OTHER -> PyList([i \in DOMAIN toks |-> PyInt(IntLiterals[toks[i]])])
isBool == Leaf.type = TBool
isContainer == Kind(Leaf.type) = "generic"

\* the command line holds no file switch, whose file may fail to load
NoFileSwitch == ~Passed(<<"b">>)

(***************************************************************************)
(* C1: precedence default < file < command line, per nested leaf field     *)
(***************************************************************************)
\* the tokens the leaf's switch takes: all of them, or the declared size
LeafToks ==
    IF isContainer /\ Kind(Get(Leaf.metadata, "nargs")) = "int"
    THEN SubSeq(ToksOf(LeafOpt), 1, Val(Leaf.metadata["nargs"]))
    ELSE ToksOf(LeafOpt)

\* C1 (as claimed): for every leaf field of a nested config, whatever its kind
\* and whatever its sibling gets: a value f held by the loaded file is the
\* resolved value when the dotted switch is not passed; a value v passed with
\* the dotted switch is the resolved value whatever the file holds; with
\* neither, the resolved value is the declared default.
C1_PrecedenceLaw ==
    (Returned /\ IsOneLevel /\ HasLeaf) =>
        /\ (FileHas("y") /\ Fits(Leaf.type, FileValue("y")) /\ ~Passed(LeafOpt))
              => Same(Resolved, FileValue("y"))
        /\ Passed(LeafOpt) => Same(Resolved, CliValue(Leaf.type, Leaf.default, LeafToks))
        /\ (~FileHas("y") /\ ~Passed(LeafOpt) /\ Leaf.default # MISSING)
              => Same(Resolved, Leaf.default)
        /\ (FileHas("z") /\ ~Passed(<<"b", "z">>)) => ResolvedZ = FileValue("z")
        /\ Passed(<<"b", "z">>) => ResolvedZ = PyInt(9)
        /\ (~FileHas("z") /\ ~Passed(<<"b", "z">>)) => ResolvedZ = PyInt(7)

(***************************************************************************)
(* C2: bounded fields on the command line                                  *)
(***************************************************************************)
isBounded == Kind(Get(Leaf.metadata, "type")) = "_impl"
Lower == Val(Leaf.metadata["type"])[1]
Upper == Val(Leaf.metadata["type"])[2]

\* C2 (as claimed): for a field declared with bounded(default, lower, upper),
\* a command-line value outside [lower, upper] makes the parse fail, and a
\* value inside, the bounds included, is accepted and is the resolved value.
C2_BoundedOnCommandLine ==
    (Parsed /\ HasLeaf /\ isBounded /\ Passed(LeafOpt)
        /\ Len(ToksOf(LeafOpt)) = 1 /\ IntToks(ToksOf(LeafOpt))) =>
        LET v == PyInt(IntLiterals[ToksOf(LeafOpt)[1]]) IN
        IF NumLeq(Lower, v) /\ NumLeq(v, Upper)
        THEN NoFileSwitch => (Returned /\ Resolved = v)
        ELSE ~IsOk(outcome)

(***************************************************************************)
(* C3: root-level fields without a default                                 *)
(***************************************************************************)
NoDefaultAtRoot ==
    IsFlat /\ ~isBool /\ (Leaf.default = MISSING \/ Get(Leaf.metadata, "required") = PyBool(TRUE))

\* C3 (as claimed): a root-level primitive, container or enumeration field
\* without a default, or declared with required(), makes the parse fail at
\* the command-line surface when its switch is absent, resolves to the
\* supplied value when it is present, and never holds a placeholder in a
\* returned configuration.
C3_RequiredAtRoot ==
    (Parsed /\ NoDefaultAtRoot) =>
        /\ ~Passed(LeafOpt) => outcome = Raise("SystemExit")
        /\ Returned => /\ Passed(LeafOpt)
                        /\ Resolved \notin {MISSING, None}
                        /\ Same(Resolved, CliValue(Leaf.type, Leaf.default, LeafToks))

(***************************************************************************)
(* C4: boolean switches                                                    *)
(***************************************************************************)
Negation(b) == PyBool(~Val(b))

\* C4: for a boolean field with default true or false, at the root or in a
\* nested config, passing its switch resolves it to the negation of the
\* default and leaving the switch out resolves it to the default; without a
\* file switch the parse returns a configuration.
C4_BooleanToggle ==
    (Parsed /\ HasLeaf /\ isBool) =>
        /\ Returned => Resolved = (IF Passed(LeafOpt) THEN Negation(Leaf.default) ELSE Leaf.default)
        /\ NoFileSwitch => Returned

C4_Witness ==
    /\ Returned /\ HasLeaf /\ isBool /\ IsOneLevel
    /\ Leaf.default = PyBool(TRUE) /\ Passed(LeafOpt) /\ Resolved = PyBool(FALSE)

(***************************************************************************)
(* C5: fixed-size sequences                                                *)
(***************************************************************************)
isSized == isContainer /\ Kind(Get(Leaf.metadata, "nargs")) = "int"
Size == Val(Leaf.metadata["nargs"])

\* C5 (as claimed): for a container declared with sequence(..., size=n), the
\* parse returns the n values when exactly n tokens follow the switch and
\* fails for every other token count, fewer or more.
C5_ExactArity ==
    (Parsed /\ HasLeaf /\ isSized /\ Passed(LeafOpt) /\ IntToks(ToksOf(LeafOpt))) =>
        IF Len(ToksOf(LeafOpt)) = Size
        THEN NoFileSwitch => (Returned /\ Same(Resolved, CliValue(Leaf.type, Leaf.default, ToksOf(LeafOpt))))
        ELSE ~IsOk(outcome)

(***************************************************************************)
(* C8: nesting depth                                                       *)
(***************************************************************************)
Dests == [i \in DOMAIN Val(parser) |-> Val(parser)[i].dest]
\* one file-path switch for the nested field, one dotted switch per child leaf
OneLevelSwitches ==
    /\ Dests = <<<<"b">>>> \o [i \in DOMAIN Val(Fields[1].type).fields |->
                                  <<"b", Val(Fields[1].type).fields[i].name>>]
                \o [i \in 1..(Len(Fields) - 1) |-> <<Fields[i + 1].name>>]
    /\ Val(parser)[1].action = "store" /\ Val(parser)[1].nargs = None /\ Val(parser)[1].type = None
LeafTypesPlain == \A i \in DOMAIN Val(Fields[1].type).fields : Kind(Val(Fields[1].type).fields[i].type) # "Optional"

Loaded == pc = "loaded"
Intact == mapping = to_dict(cfg_in)

RECURSIVE ConfigEq(_, _)
\* == of two dataclass instances: same class, fields equal by ==
ConfigEq(a, b) ==
    IF Kind(a) = "instance" /\ Kind(b) = "instance"
    THEN /\ Val(a).cls = Val(b).cls
         /\ \A n \in DOMAIN Val(a).fields : ConfigEq(Val(a).fields[n], Val(b).fields[n])
    ELSE PyEq(a, b)

\* C6 (as claimed): for every configuration c of a schema with primitive,
\* enumeration, container, None-valued and one-level nested fields,
\* from_dict(c.to_dict()) returns a configuration equal to c.
C6_RoundTrip ==
    (Loaded /\ Intact) => (IsOk(cfg_out) /\ ConfigEq(Val(cfg_out), cfg_in))

(***************************************************************************)
(* C7: from_dict with allow_missing=True                                   *)
(***************************************************************************)
\* the complete mapping loads: only the missing key can make from_dict fail
CompleteLoads == IsOk(from_dict(dataclass_type, to_dict(cfg_in), TRUE))
Full == Val(to_dict(cfg_in))
DroppedRoot == DOMAIN Full \ DOMAIN Val(mapping)
DroppedNested == IF "b" \in DOMAIN Full /\ "b" \in DOMAIN Val(mapping)
                 THEN DOMAIN Val(Full["b"]) \ DOMAIN Val(Val(mapping)["b"]) ELSE {}
FieldOf(cls, name) == Val(cls).fields[CHOOSE i \in DOMAIN Val(cls).fields : Val(cls).fields[i].name = name]

\* C7 (as claimed): with allow_missing=True, from_dict never fails because a
\* field is missing: a leaf, a nested-config field or a leaf inside a nested
\* config that is absent from the mapping and has no default is given None,
\* and a configuration is returned.
C7_AllowMissing ==
    (Loaded /\ missing_ok /\ ~Intact /\ CompleteLoads) =>
        /\ IsOk(cfg_out)
        /\ \A n \in DroppedRoot :
              FieldOf(dataclass_type, n).default = MISSING => Attr(Val(cfg_out), n) = None
        /\ \A n \in DroppedNested :
              FieldOf(Fields[1].type, n).default = MISSING => Attr(Attr(Val(cfg_out), "b"), n) = None

(***************************************************************************)
(* C9: unconsumed command-line tokens                                      *)
(***************************************************************************)
Called == pc = "called"
Remaining == Val(outcome).remaining_args
\* the words of the command line no switch of the schema claims
Unclaimed ==
    (IF Passed(<<"u">>) THEN {OptWord(<<"u">>)} \cup {Word(t) : t \in {ToksOf(<<"u">>)[i] : i \in DOMAIN ToksOf(<<"u">>)}} ELSE {})
\* the parse of the same command line without the words no switch claims
ParseOfClaimed ==
    parse_args_into_dataclass(dataclass_type, Val(parser), fs,
                              SelectSeq(args, LAMBDA item : item.opt # <<"u">>))
JobDirStepFailed == (change_job_dir \/ job_dir_name # None) /\ wout = Raise("OSError")

\* C9: tokens no switch claims are never silently dropped: the parse returns
\* them beside the configuration without failing for them; in the wrapper,
\* with strict=True they raise ValueError before the function is invoked and
\* before a job directory is created or entered, and with strict=False a
\* warning is issued and the function is still invoked.
C9_UnconsumedTokens ==
    /\ (Called /\ IsOk(parser)) => IsOk(outcome) = IsOk(ParseOfClaimed)
    /\ (Called /\ IsOk(outcome)) =>
        /\ Config = Val(ParseOfClaimed).config
        /\ Unclaimed \subseteq {Remaining[i] : i \in DOMAIN Remaining}
        /\ (Remaining # <<>> /\ strict) =>
              (wout = Raise("ValueError") /\ ~called /\ dirs = {} /\ saved = {} /\ cwd = cwd_before)
        /\ (Remaining # <<>> /\ ~strict) => (warned /\ (~JobDirStepFailed => called))
        /\ Remaining = <<>> => (~warned /\ wout # Raise("ValueError"))

C9_Witness ==
    /\ Called /\ IsOk(outcome) /\ Passed(<<"u">>) /\ Len(Remaining) = 2
    /\ strict /\ change_job_dir /\ wout = Raise("ValueError") /\ ~called /\ dirs = {}

(***************************************************************************)
(* C10: the working directory after the wrapper                            *)
(***************************************************************************)
\* C10 (as claimed): whenever a call of the wrapper ends, by return of the
\* function, by an exception of the function or by a failure of a step after
\* the working directory was changed, the working directory is the one that
\* was current immediately before the call.
C10_RestoresDirectory ==
    Called => cwd = cwd_before

(***************************************************************************)
(* C11: nested leaf fields without a default                               *)
(***************************************************************************)
NoDefaultNested ==
    /\ IsOneLevel /\ HasLeaf /\ ~isBool
    /\ (Leaf.default = MISSING \/ Get(Leaf.metadata, "required") = PyBool(TRUE))

\* the tokens after the switch read as a value of the declared type
TokensFit(type, toks) ==
    /\ toks # <<>>
    /\ CASE type = TInt -> toks[1] \in DOMAIN IntLiterals
          [] Kind(type) = "enumtype" -> \E i \in DOMAIN EnumValues : EnumValues[i] = toks[1]
          [] Kind(type) = "generic" -> IntToks(toks)
          [] OTHER -> TRUE

\* C11 (as claimed): for a leaf field of a nested config that has no default,
\* declared bare or with required(): the parse returns the file's value when
\* only the file loaded through the parent's switch supplies one, returns the
\* command-line value when the dotted switch is passed, and fails when
\* neither supplies a value.
C11_NestedRequired ==
    (Parsed /\ NoDefaultNested) =>
        /\ (FileHas("y") /\ Fits(Leaf.type, FileValue("y")) /\ ~Passed(LeafOpt))
              => (Returned /\ Same(Resolved, FileValue("y")))
        /\ (Passed(LeafOpt) /\ TokensFit(Leaf.type, ToksOf(LeafOpt)) /\ NoFileSwitch)
              => (Returned /\ Same(Resolved, CliValue(Leaf.type, Leaf.default, LeafToks)))
        /\ (~Passed(LeafOpt) /\ ~FileHas("y")) => ~IsOk(outcome)

(***************************************************************************)
(* C12: choices                                                            *)
(***************************************************************************)
\* the class that declares y, wherever y stands in it
HasY == Val(dataclass_type).name \in {"Flat", "FlatLast"} \/ (IsOneLevel /\ Fields[1].default = MISSING)
YHome == IF IsOneLevel THEN Fields[1].type ELSE dataclass_type
YField == FieldOf(YHome, "y")
YOpt == IF IsOneLevel THEN <<"b", "y">> ELSE <<"y">>
YValue == IF IsOneLevel THEN Attr(Attr(Config, "b"), "y") ELSE Attr(Config, "y")
HasChoices == HasY /\ "choices" \in DOMAIN YField.metadata
Choices == Val(YField.metadata["choices"])
\* the value the first token after the switch stands for, None if it is no integer
Chosen == IF ToksOf(YOpt)[1] \in DOMAIN IntLiterals THEN PyInt(IntLiterals[ToksOf(YOpt)[1]]) ELSE None
IsChoice(v) == \E i \in DOMAIN Choices : Choices[i] = v

\* C12: for a field declared with choices(v1, ..., vn), at any position of
\* its schema: with the switch absent (and no loaded file holding the field)
\* the resolved value is v1; with the switch passed and a value of the set
\* the resolved value is that value; with a value outside the set the parse
\* fails.
C12_Choices ==
    (Parsed /\ HasChoices) =>
        /\ (~Passed(YOpt) /\ ~FileHas("y")) =>
              /\ NoFileSwitch => Returned
              /\ Returned => YValue = Choices[1]
        /\ (Passed(YOpt) /\ ToksOf(YOpt) # <<>> /\ IsChoice(Chosen)) =>
              /\ NoFileSwitch => Returned
              /\ Returned => YValue = Chosen
        /\ (Passed(YOpt) /\ ToksOf(YOpt) # <<>> /\ ~IsChoice(Chosen)) => ~IsOk(outcome)

C12_Witness ==
    /\ Returned /\ Val(dataclass_type).name = "FlatLast" /\ HasChoices
    /\ Passed(<<"x">>) /\ ~Passed(YOpt) /\ YValue = PyInt(1) /\ Len(Choices) = 3

(***************************************************************************)
(* C13: declared constraints on the returned configuration                 *)
(***************************************************************************)
InBounds(v) == isNumber(v) /\ NumLeq(Lower, v) /\ NumLeq(v, Upper)
HasSize(v, n) == Kind(v) \in {"list", "tuple"} /\ Len(Val(v)) = n
IsMember(v, type) == Kind(v) = "enum" /\ Val(v)[1] = Val(type)

\* C13 (as claimed): every configuration the parse returns satisfies the
\* declared constraints on its final values, whichever source supplied
\* them: a choices field holds one of its choices, a bounded field lies
\* within its bounds, a fixed-size sequence has the declared length and an
\* enumeration field holds a member of the enumeration.
C13_ConstraintsHold ==
    (Returned /\ HasLeaf) =>
        /\ HasChoices => IsChoice(Resolved)
        /\ isBounded => InBounds(Resolved)
        /\ isSized => HasSize(Resolved, Size)
        /\ Kind(Leaf.type) = "enumtype" => IsMember(Resolved, Leaf.type)

(***************************************************************************)
(* C14: _unpack_optional                                                   *)
(***************************************************************************)
\* the declared type of y, which the constructor hands to _unpack_optional
Declared == YField.type
Inner == Val(Declared)

\* C14 (as claimed): the type resolver unwraps one level of Optional: an
\* Optional primitive type resolves to the primitive type, an Optional
\* container type to the container type, a type that is not Optional is
\* returned unchanged, and it fails only for an Optional type whose inner
\* type is neither a primitive nor a container.
C14_UnpackOptional ==
    (Built /\ HasY) =>
        /\ Kind(Declared) # "Optional" => _unpack_optional(Declared) = Ok(Declared)
        /\ (Kind(Declared) = "Optional" /\ (Inner \in _primitive_types \/ _is_container_type(Inner)))
              => (_unpack_optional(Declared) = Ok(Inner) /\ parser # Raise("TypeError"))

(***************************************************************************)
(* C15: the order of the switches on the command line                      *)
(***************************************************************************)
\* the same options in one fixed order
OptOrder == << <<"b">>, <<"u">>, <<"x">>, <<"b", "z">>, <<"b", "y">>, <<"y">> >>
Sorted ==
    LET present == SelectSeq(OptOrder, LAMBDA opt : Passed(opt))
    IN  [i \in DOMAIN present |-> args[CHOOSE j \in DOMAIN args : args[j].opt = present[i]]]
ParseOfSorted == parse_args_into_dataclass(dataclass_type, Val(parser), fs, Sorted)
\* vars(namespace) after the command line was read
Namespace == Val(parse_known_args(Val(parser), args)).namespace
Position(dest) == CHOOSE i \in DOMAIN Namespace : Namespace[i][1] = dest

\* C15: the result of the parse does not depend on the order of the
\* switches, each passed once: the same switches in another order, the parent's file switch
\* before or after a dotted child override and interleaved with root-level
\* switches, give the same configuration (and the same failure); when the
\* parent's file entry is processed every dotted child entry precedes it in
\* the namespace.
C15_OrderIndependent ==
    (Parsed /\ IsOk(parser)) =>
        /\ IsOk(outcome) = IsOk(ParseOfSorted)
        /\ IsOk(outcome) => Config = Val(ParseOfSorted).config
        /\ ~IsOk(outcome) => outcome = ParseOfSorted
        /\ (IsOneLevel /\ IsOk(parse_known_args(Val(parser), args)) /\ Passed(<<"b">>)) =>
              \A i \in DOMAIN Val(Fields[1].type).fields :
                  /\ NsHas(Namespace, <<"b", Val(Fields[1].type).fields[i].name>>)
                  /\ Position(<<"b", Val(Fields[1].type).fields[i].name>>) < Position(<<"b">>)

C15_Witness ==
    /\ Returned /\ IsOneLevel /\ FileHas("y") /\ FileHas("z")
    /\ Len(args) = 2 /\ args[1].opt = <<"b", "y">> /\ args[2].opt = <<"b">>
    /\ Sorted # args
    /\ Resolved = PyInt(5) /\ ResolvedZ = PyInt(8)

(***************************************************************************)
(* C16: from_dict and a key that is absent from the mapping                *)
(***************************************************************************)
\* one key of a field that is no nested config was dropped from the mapping
LeafKeyDropped ==
    /\ Loaded /\ ~Intact /\ DroppedRoot # {}
    /\ \A n \in DroppedRoot : ~is_dataclass(FieldOf(dataclass_type, n).type)

\* C16: when the key of a field that is no nested config is absent from the
\* mapping (and the rest of the mapping loads), from_dict with
\* allow_missing=False fails with ValueError and returns no configuration,
\* whether or not the field declares a default; with allow_missing=True the
\* field is None in the returned configuration, even when it declares a
\* default.
C16_AbsentKey ==
    (LeafKeyDropped /\ CompleteLoads) =>
        /\ ~missing_ok => cfg_out = Raise("ValueError")
        /\ missing_ok =>
              /\ IsOk(cfg_out)
              /\ \A n \in DroppedRoot : Attr(Val(cfg_out), n) = None

C16_Witness ==
    /\ LeafKeyDropped /\ CompleteLoads /\ missing_ok
    /\ DroppedRoot = {"y"} /\ FieldOf(dataclass_type, "y").default = PyInt(1)
    /\ Attr(cfg_in, "y") = PyInt(5)
    /\ IsOk(cfg_out) /\ Attr(Val(cfg_out), "y") = None
====
